---- MODULE Spec2Model ----
(***************************************************************************)
(* LSB image steganography (steganography_gui.py): the bit framer          *)
(* (message_to_bits, bits_to_message) and the raster codec                 *)
(* (hide_message_in_image, extract_message_from_image).                    *)
(*                                                                         *)
(* Python strings of '0'/'1' are sequences over {0,1}; a message is the    *)
(* sequence of its characters' code points.  Sequences are 1-indexed, so   *)
(* the Python index i is the TLA+ index i + 1.                             *)
(***************************************************************************)
EXTENDS Integers, Sequences, FiniteSets

\* ---------------------------------------------------------------- bounds
\* Largest image width and height explored.
MaxWidth == 4
MaxHeight == 4
\* Longest message handed to hide_message_in_image.
MaxLen == 2
\* Largest small length a carrier image declares in its first 32 LSBs.
MaxDeclared == 2
\* Most bits following the 32-bit prefix in an input of bits_to_message.
MaxTail == 9

\* Code points of the characters messages are built from: two that fit in
\* eight bits and one that does not.
Chars == {65, 255, 256}

\* ------------------------------------------------------- program constants
\* format(length, '032b') / bits[:32] / len(bits) == 32 / 32 + ...
LenBits == 32
\* format(ord(c), '08b') / length * 8 / message_bits[i:i+8]
CharBits == 8
\* the three colour channels of an RGB pixel: width * height * 3
Channels == 3
\* message_length = None
None == -1

\* ------------------------------------------------------------ bit framer
\* Python slice s[a:b] for 0 <= a, 0 <= b (clamped to the sequence).
Slice(s, a, b) ==
    LET hi == IF b < Len(s) THEN b ELSE Len(s)
    IN  IF a >= hi THEN <<>> ELSE SubSeq(s, a + 1, hi)

\* The binary digits of n >= 0, most significant first, no padding ('b').
RECURSIVE Bin(_)
Bin(n) == IF n < 2 THEN <<n>> ELSE Bin(n \div 2) \o <<n % 2>>

RECURSIVE Zeros(_)
Zeros(k) == IF k <= 0 THEN <<>> ELSE <<0>> \o Zeros(k - 1)

\* Padding on the wrong side (ljust for rjust).
FormatRight(n, w) == Bin(n) \o Zeros(w - Len(Bin(n)))

\* format(n, '0<w>b'): zero-padded to a MINIMUM width w; a number that needs
\* more than w digits keeps all of them.
Format(n, w) == Zeros(w - Len(Bin(n))) \o Bin(n)

\* Python integers are unbounded and TLC's are 32 bits wide: values up
\* to Huge are kept exactly and anything larger is kept as Huge, which is more
\* than the bits of any raster explored (32 + 8 * Huge still fits).
Huge == 2^27

\* int(s, 2) for a non-empty digit string.
RECURSIVE Int2(_)
Int2(s) ==
    IF Len(s) = 0 THEN 0
    ELSE LET v == 2 * Int2(SubSeq(s, 1, Len(s) - 1)) + s[Len(s)]
         IN  IF v > Huge THEN Huge ELSE v

\* ''.join([format(ord(c), '08b') for c in message])
RECURSIVE JoinChars(_)
JoinChars(message) ==
    IF Len(message) = 0 THEN <<>>
    ELSE Format(Head(message), CharBits) \o JoinChars(Tail(message))

message_to_bits(message) ==
    LET length == Len(message)
        length_bits == Format(length, LenBits)
        message_bits == JoinChars(message)
    IN  length_bits \o message_bits

\* [chr(int(message_bits[i:i+8], 2)) for i in range(0, len(message_bits), 8)]
RECURSIVE CharsFrom(_, _)
CharsFrom(message_bits, i) ==
    IF i >= Len(message_bits) THEN <<>>
    ELSE <<Int2(Slice(message_bits, i, i + CharBits))>>
         \o CharsFrom(message_bits, i + CharBits)

bits_to_message(bits) ==
    LET length == Int2(Slice(bits, 0, LenBits))
        message_bits == Slice(bits, LenBits, LenBits + length * CharBits)
    IN  CharsFrom(message_bits, 0)

\* ---------------------------------------------------------------- state
VARIABLES
    width, height,   \* img.size of the carrier file (and of the file saved from it)
    carrier,         \* the carrier file's pixels: <<x, y>> -> <<r, g, b>>
    output_exists,   \* whether the file at output_path has been written
    output,          \* the pixels of the file at output_path
    flipped,         \* the output file's channel at scan position 5 was corrupted
    clean_bits,      \* bits accumulated by the last extraction of the intact output
    pc,              \* where the running (or last) call is
    path,            \* image_path of the running (or last) call
    pixels,          \* pixels = img.load() of the running (or last) call
    message,         \* hide_message_in_image: message
    bitstring,       \* hide_message_in_image: bitstring
    total_bits,      \* hide_message_in_image: total_bits
    bit_index,       \* hide_message_in_image: bit_index
    x, y, c,         \* the loop variables; c indexes the pixel's tuple
    bits,            \* extract_message_from_image: bits (bits_to_message: its argument)
    message_length,  \* extract_message_from_image: message_length
    relevant_bits,   \* extract_message_from_image: relevant_bits
    returned,        \* the value the last call returned
    raised           \* the exception the last call raised, "" when none

vars == <<width, height, carrier, output_exists, output, flipped, clean_bits, pc,
          path, pixels, message, bitstring, total_bits, bit_index, x, y, c, bits,
          message_length, relevant_bits, returned, raised>>

\* ------------------------------------------------------------- the raster
Coords(w, h) == (0 .. w - 1) \X (0 .. h - 1)

\* Scan position of channel ch of pixel (px, py) in an image w pixels wide:
\* row-major over pixels, R, G, B within a pixel.
ScanPos(w, px, py, ch) == Channels * (py * w + px) + ch

Capacity == width * height * Channels

\* Reading the second lowest bit instead of the lowest.
LsbSecond(colour) == (colour \div 2) % 2

\* colour & 1
Lsb(colour) == colour % 2

\* colour | bit: the lowest bit is never cleared.
NewColourOr(colour, bit) == IF colour % 2 = 1 THEN colour ELSE colour + bit

\* (colour & ~1) | bit, for colour in 0..255 and bit in {0, 1}: ~1 is ...11110,
\* so the and clears bit 0 and the or puts bit there.
NewColour(colour, bit) == (colour - (colour % 2)) + bit

\* Bit i (0 the most significant) of n written big-endian on w bits, n < 2^31.
BigEndianBit(n, w, i) ==
    IF w - 1 - i > 30 THEN 0 ELSE (n \div 2^(w - 1 - i)) % 2

\* The byte v with its lowest bit replaced by bit.
WithLowBit(v, bit) == 2 * (v \div 2) + bit

\* A carrier image: channel values spread over 0..255, whose first 32 LSBs
\* spell the length d (a foreign image, or one cut from a larger stego image).
CarrierValue(d, k) ==
    LET v == (37 * k + 11) % 256
    IN  IF k < LenBits THEN WithLowBit(v, BigEndianBit(d, LenBits, k)) ELSE v

CarrierImage(w, h, d) ==
    [p \in Coords(w, h) |->
        <<CarrierValue(d, ScanPos(w, p[1], p[2], 0)),
          CarrierValue(d, ScanPos(w, p[1], p[2], 1)),
          CarrierValue(d, ScanPos(w, p[1], p[2], 2))>>]

\* Lengths a carrier's first 32 LSBs declare: small ones, and one with bit 5 of
\* the prefix set (2^26), far beyond any raster explored.
Declared == (0 .. MaxDeclared) \cup {2^26}

\* Messages of at most MaxLen characters over Chars.
Messages == UNION {[1 .. n -> Chars] : n \in 0 .. MaxLen}

Init ==
    /\ width \in 1 .. MaxWidth
    /\ height \in 1 .. MaxHeight
    /\ \E d \in Declared : carrier = CarrierImage(width, height, d)
    /\ output_exists = FALSE
    /\ output = carrier
    /\ flipped = FALSE
    /\ clean_bits = <<>>
    /\ pc = "idle"
    /\ path = "carrier"
    /\ pixels = carrier
    /\ message = <<>>
    /\ bitstring = <<>>
    /\ total_bits = 0
    /\ bit_index = 0
    /\ x = 0 /\ y = 0 /\ c = 0
    /\ bits = <<>>
    /\ message_length = None
    /\ relevant_bits = <<>>
    /\ returned = <<>>
    /\ raised = ""

\* No call is running: a new one may start.
Quiet == pc \in {"idle", "hide_done", "hide_raised", "extract_done"}

\* ------------------------------------------------- hide_message_in_image
\* Four channels counted per pixel, as for an RGBA image.
TooLongRGBA(n, w, h) == n > w * h * (Channels + 1)

\* An exact fit refused.
TooLongOrEqual(n, w, h) == n >= w * h * Channels

\* total_bits > width * height * 3
TooLong(n, w, h) == n > w * h * Channels

\* One colour of the inner loop, lines 52-58: the new colour and bit_index.
EmbedColour(colour, i, bs, n) ==
    IF i < n
    THEN [colour |-> NewColour(colour, bs[i + 1]), index |-> i + 1]
    ELSE [colour |-> colour, index |-> i]

\* for y in range(height): for x in range(width): the pixel after (px, py).
HideNext(px, py, w) == IF px + 1 < w THEN <<px + 1, py>> ELSE <<0, py + 1>>

\* Lines 34-46: open the carrier, frame the message, check the capacity.  The
\* file at output_path is a fresh one: nothing is there until img.save.
StartHide(m) ==
    /\ Quiet
    /\ path' = "carrier"
    /\ pixels' = carrier
    /\ message' = m
    /\ bitstring' = message_to_bits(m)
    /\ total_bits' = Len(bitstring')
    /\ output_exists' = FALSE
    /\ output' = carrier
    /\ flipped' = FALSE
    /\ clean_bits' = <<>>
    /\ bit_index' = 0
    /\ x' = 0 /\ y' = 0 /\ c' = 0
    /\ bits' = <<>>
    /\ message_length' = None
    /\ relevant_bits' = <<>>
    /\ returned' = <<>>
    /\ IF TooLong(total_bits', width, height)
       THEN pc' = "hide_raised" /\ raised' = "ValueError"
       ELSE pc' = "hide_scan" /\ raised' = ""
    /\ UNCHANGED <<width, height, carrier>>

\* Lines 49-63 for the pixel (x, y), and line 64 when the loops end.
HidePixel ==
    /\ pc = "hide_scan"
    /\ LET old == pixels[<<x, y>>]
           r == EmbedColour(old[1], bit_index, bitstring, total_bits)
           g == EmbedColour(old[2], r.index, bitstring, total_bits)
           b == EmbedColour(old[3], g.index, bitstring, total_bits)
           new_pixels == [pixels EXCEPT ![<<x, y>>] = <<r.colour, g.colour, b.colour>>]
           broke == b.index >= total_bits
           last == x + 1 >= width /\ y + 1 >= height
       IN  /\ pixels' = new_pixels
           /\ bit_index' = b.index
           /\ IF broke \/ last
              THEN /\ pc' = "hide_done"
                   /\ output_exists' = TRUE
                   /\ output' = new_pixels
                   /\ UNCHANGED <<x, y>>
              ELSE /\ pc' = "hide_scan"
                   /\ x' = HideNext(x, y, width)[1]
                   /\ y' = HideNext(x, y, width)[2]
                   /\ UNCHANGED <<output_exists, output>>
    /\ UNCHANGED <<width, height, carrier, flipped, clean_bits, path, message,
                   bitstring, total_bits, c, bits, message_length, relevant_bits,
                   returned, raised>>

\* --------------------------------------------- extract_message_from_image
\* The file image_path names; Image.open needs it to exist.
FileExists(p) == p = "carrier" \/ (p = "output" /\ output_exists)
FilePixels(p) == IF p = "carrier" THEN carrier ELSE output

\* message_length is None and len(bits) == 32
AtLength(ml, n) == ml = None /\ n = LenBits

\* total_needed = 32 + message_length * 8
TotalNeeded(ml) == LenBits + ml * CharBits

\* One bit too many asked for.
EnoughStrict(n, needed) == n > needed

\* len(bits) >= total_needed
Enough(n, needed) == n >= needed

\* The loops nested the other way round: for x ...: for y ...
ExtractNextColumns(px, py, w, h) ==
    IF py + 1 < h THEN <<px, py + 1>> ELSE <<px + 1, 0>>

\* for y in range(height): for x in range(width): the pixel after (px, py)
\* in an image w wide and h high.
ExtractNext(px, py, w, h) == IF px + 1 < w THEN <<px + 1, py>> ELSE <<0, py + 1>>

\* Lines 72-78: open the image, start with no bits and no length.
StartExtract(p) ==
    /\ Quiet
    /\ FileExists(p)
    /\ path' = p
    /\ pixels' = FilePixels(p)
    /\ bits' = <<>>
    /\ message_length' = None
    /\ relevant_bits' = <<>>
    /\ returned' = <<>>
    /\ raised' = ""
    /\ x' = 0 /\ y' = 0 /\ c' = 0
    /\ pc' = "extract_scan"
    /\ UNCHANGED <<width, height, carrier, output_exists, output, flipped, clean_bits,
                   message, bitstring, total_bits, bit_index>>

\* What a finished extraction of the intact output file leaves for comparison.
CleanBits(new_bits) ==
    IF path = "output" /\ ~flipped THEN new_bits ELSE clean_bits

\* Lines 81-89 for colour c of pixel (x, y), and line 90 when the loops end.
ExtractColour ==
    /\ pc = "extract_scan"
    /\ LET colour == pixels[<<x, y>>][c + 1]
           new_bits == Append(bits, Lsb(colour))
           ml == IF AtLength(message_length, Len(new_bits))
                 THEN Int2(new_bits) ELSE message_length
           found == ml # None /\ Enough(Len(new_bits), TotalNeeded(ml))
           last == c + 1 >= Channels /\ x + 1 >= width /\ y + 1 >= height
       IN  /\ bits' = new_bits
           /\ message_length' = ml
           /\ IF found
              THEN /\ relevant_bits' = Slice(new_bits, 0, TotalNeeded(ml))
                   /\ returned' = bits_to_message(relevant_bits')
                   /\ pc' = "extract_done"
                   /\ clean_bits' = CleanBits(new_bits)
                   /\ UNCHANGED <<x, y, c>>
              ELSE IF last
              THEN /\ returned' = <<>>
                   /\ pc' = "extract_done"
                   /\ clean_bits' = CleanBits(new_bits)
                   /\ UNCHANGED <<x, y, c, relevant_bits>>
              ELSE /\ pc' = "extract_scan"
                   /\ IF c + 1 < Channels
                      THEN c' = c + 1 /\ x' = x /\ y' = y
                      ELSE /\ c' = 0
                           /\ x' = ExtractNext(x, y, width, height)[1]
                           /\ y' = ExtractNext(x, y, width, height)[2]
                   /\ UNCHANGED <<relevant_bits, returned, clean_bits>>
    /\ UNCHANGED <<width, height, carrier, output_exists, output, flipped, path,
                   pixels, message, bitstring, total_bits, bit_index, raised>>

\* ------------------------------------------------------------ environment
\* The pixel and channel at a scan position.
PixelAt(k) == <<(k \div Channels) % width, (k \div Channels) \div width>>
ChannelAt(k) == k % Channels

\* Someone corrupts the saved image between two extractions: the LSB of the
\* channel at scan position 5 is flipped.
Flip ==
    /\ Quiet
    /\ output_exists
    /\ ~flipped
    /\ clean_bits # <<>>
    /\ 5 < Capacity
    /\ LET p == PixelAt(5)
           ch == ChannelAt(5) + 1
           v == output[p][ch]
       IN  output' = [output EXCEPT ![p][ch] = WithLowBit(v, 1 - (v % 2))]
    /\ flipped' = TRUE
    /\ UNCHANGED <<width, height, carrier, output_exists, clean_bits, pc, path,
                   pixels, message, bitstring, total_bits, bit_index, x, y, c, bits,
                   message_length, relevant_bits, returned, raised>>

Next ==
    \/ \E m \in Messages : StartHide(m)
    \/ HidePixel
    \/ \E p \in {"carrier", "output"} : StartExtract(p)
    \/ ExtractColour
    \/ Flip

Spec == Init /\ [][Next]_vars

\* ----------------------------------------------- bits_to_message on its own
\* All bit sequences of length n.
BitSeqs(n) == [1 .. n -> {0, 1}]

\* The 32-bit big-endian prefix declaring d.
Prefix(d) == [i \in 1 .. LenBits |-> BigEndianBit(d, LenBits, i - 1)]

\* Inputs of bits_to_message: a prefix declaring a small length, followed by
\* up to MaxTail bits.
FramerInputs ==
    {Prefix(d) \o t : d \in 0 .. MaxDeclared, t \in UNION {BitSeqs(n) : n \in 0 .. MaxTail}}

InitFramer ==
    /\ width = 1 /\ height = 1
    /\ carrier = CarrierImage(1, 1, 0)
    /\ output_exists = FALSE
    /\ output = carrier
    /\ flipped = FALSE
    /\ clean_bits = <<>>
    /\ pc = "decode_call"
    /\ path = ""
    /\ pixels = carrier
    /\ message = <<>>
    /\ bitstring = <<>>
    /\ total_bits = 0
    /\ bit_index = 0
    /\ x = 0 /\ y = 0 /\ c = 0
    /\ bits \in FramerInputs
    /\ message_length = None
    /\ relevant_bits = <<>>
    /\ returned = <<>>
    /\ raised = ""

\* Lines 22-25: nothing in them raises for an input of 32 bits or more.
Decode ==
    /\ pc = "decode_call"
    /\ returned' = bits_to_message(bits)
    /\ raised' = ""
    /\ pc' = "decode_done"
    /\ UNCHANGED <<width, height, carrier, output_exists, output, flipped, clean_bits,
                   path, pixels, message, bitstring, total_bits, bit_index, x, y, c,
                   bits, message_length, relevant_bits>>

NextFramer == Decode

SpecFramer == InitFramer /\ [][NextFramer]_vars

\* ================================================================ claims
\* Every character's code point fits in eight bits.
ValidMessage(m) == \A i \in 1 .. Len(m) : m[i] \in 0 .. 255

\* The framed bit length 32 + 8 * L of a message of L characters.
Framed(m) == LenBits + CharBits * Len(m)

\* The channel of a raster at scan position k.
ChannelOf(raster, k) == raster[PixelAt(k)][ChannelAt(k) + 1]

HidePcs == {"hide_scan", "hide_done", "hide_raised"}
ExtractPcs == {"extract_scan", "extract_done"}

\* The last call extracted from the file the last hide saved, uncorrupted.
ExtractedIntactOutput == pc = "extract_done" /\ path = "output" /\ ~flipped

\* C1 - round trip: for a message of code points 0..255 (the empty one too) and
\* a raster of at least 32 + 8 * len channels, hiding raises nothing, and
\* extracting from the saved image returns exactly the message, raising nothing.
C1_RoundTrip ==
    (ValidMessage(message) /\ Framed(message) <= Capacity) =>
        /\ pc # "hide_raised"
        /\ pc \in HidePcs => raised = ""
        /\ ExtractedIntactOutput => (returned = message /\ raised = "")

C1_Witness ==
    /\ ExtractedIntactOutput
    /\ message = <<65, 255>>
    /\ returned = message

\* C2 - non-destructive failure: when 32 + 8 * L exceeds width * height * 3 the
\* call ends in the capacity error with every channel of the raster as it was
\* loaded and no output image saved.
C2_NonDestructiveFailure ==
    (pc \in HidePcs /\ Framed(message) > Capacity) =>
        /\ pc = "hide_raised"
        /\ raised = "ValueError"
        /\ pixels = carrier
        /\ ~output_exists

C2_Witness ==
    /\ pc = "hide_raised"
    /\ Capacity >= LenBits
    /\ Len(message) > 0
    /\ pixels = carrier

C6_FramingLayout ==
    (pc \in HidePcs /\ ValidMessage(message)) =>
        /\ Len(bitstring) = LenBits + CharBits * Len(message)
        /\ \A i \in 0 .. LenBits - 1 :
              bitstring[i + 1] = BigEndianBit(Len(message), LenBits, i)
        /\ \A k \in 0 .. Len(message) - 1 : \A j \in 0 .. CharBits - 1 :
              bitstring[LenBits + CharBits * k + j + 1]
                  = BigEndianBit(message[k + 1], CharBits, j)

C6_Witness ==
    /\ pc = "hide_scan"
    /\ message = <<255, 65>>
    /\ Len(bitstring) = 48

\* C8 - embed postcondition and frame: after a successful hide of n bits, the
\* channel at scan position k < n is its old value with the lowest bit replaced
\* by bit k (upper seven bits kept, still in 0..255), and every channel at a
\* scan position k >= n has its old value, in the last pixel written and in the
\* pixels never reached.
C8_EmbedPostcondition ==
    pc = "hide_done" =>
        /\ output = pixels
        /\ DOMAIN pixels = Coords(width, height)
        /\ \A p \in Coords(width, height) : \A ch \in 0 .. Channels - 1 :
              LET k == ScanPos(width, p[1], p[2], ch)
                  old == carrier[p][ch + 1]
                  new == pixels[p][ch + 1]
              IN  IF k < total_bits
                  THEN /\ new = 2 * (old \div 2) + bitstring[k + 1]
                       /\ new \div 2 = old \div 2
                       /\ new \in 0 .. 255
                  ELSE new = old

C8_Witness ==
    /\ pc = "hide_done"
    /\ total_bits % Channels # 0
    /\ total_bits + Channels < Capacity
    /\ \E k \in 0 .. total_bits - 1 : ChannelOf(pixels, k) # ChannelOf(carrier, k)

\* C3 - extraction underflow: an extraction that has visited every channel
\* without accumulating 32 + 8 * L bits (or even the 32 of the length) ends in
\* an UnderflowError, not in a returned message, and reads no channel beyond
\* the last one.
C3_UnderflowError ==
    (pc = "extract_done"
        /\ (message_length = None \/ Len(bits) < LenBits + CharBits * message_length)) =>
        /\ Len(bits) = Capacity
        /\ raised = "UnderflowError"

\* C4 - code-point range: a message with a character above 255 fails in framing
\* with a CodePointRangeError: no bit sequence is produced and no channel is
\* modified.
C4_CodePointRange ==
    (pc \in HidePcs /\ ~ValidMessage(message)) =>
        /\ raised = "CodePointRangeError"
        /\ bitstring = <<>>
        /\ pixels = carrier
        /\ ~output_exists

\* The length the first 32 bits of a bits_to_message input declare.
DeclaredBy(bs) ==
    CHOOSE d \in 0 .. MaxDeclared :
        \A i \in 0 .. LenBits - 1 : bs[i + 1] = BigEndianBit(d, LenBits, i)

\* C7 - decode framing: for an input of at least 32 bits declaring L,
\* bits_to_message returns exactly L characters, each from a full group of
\* eight bits, when 8 * L bits follow the prefix, and reports a framing error
\* when fewer do.
C7_DecodeFraming ==
    pc = "decode_done" =>
        LET L == DeclaredBy(bits)
        IN  IF Len(bits) - LenBits >= CharBits * L
            THEN /\ raised = ""
                 /\ Len(returned) = L
                 /\ \A k \in 0 .. L - 1 : \A j \in 0 .. CharBits - 1 :
                       BigEndianBit(returned[k + 1], CharBits, j)
                           = bits[LenBits + CharBits * k + j + 1]
            ELSE raised = "FramingError"

\* C9 - extract scan: bit k of the accumulated sequence is the lowest bit of the
\* channel at scan position k; the length is set exactly when the 32nd bit is
\* appended (unset before, the value of those 32 bits ever after); the scan
\* goes on only while fewer than required = 32 + 8 * L bits are accumulated, so
\* it ends with exactly required bits or with the whole raster read, no channel
\* at a position >= required is visited, and what is decoded is the first
\* required bits; for L = 0 it ends right after the 32nd bit.
C9_ExtractScan ==
    pc \in ExtractPcs =>
        /\ Len(bits) <= Capacity
        /\ \A k \in 0 .. Len(bits) - 1 : bits[k + 1] = ChannelOf(pixels, k) % 2
        /\ message_length = None <=> Len(bits) < LenBits
        /\ message_length # None =>
              /\ \A i \in 0 .. LenBits - 1 :
                    bits[i + 1] = BigEndianBit(message_length, LenBits, i)
              /\ Len(bits) <= LenBits + CharBits * message_length
        /\ pc = "extract_scan" =>
              /\ Len(bits) = ScanPos(width, x, y, c)
              /\ Len(bits) < Capacity
              /\ message_length # None => Len(bits) < LenBits + CharBits * message_length
        /\ pc = "extract_done" =>
              \/ Len(bits) = Capacity
              \/ message_length # None /\ Len(bits) = LenBits + CharBits * message_length
        /\ (pc = "extract_done" /\ message_length # None
                /\ Len(bits) = LenBits + CharBits * message_length) =>
              /\ relevant_bits = bits
              /\ Len(returned) = message_length
              /\ \A k \in 0 .. message_length - 1 : \A j \in 0 .. CharBits - 1 :
                    BigEndianBit(returned[k + 1], CharBits, j)
                        = bits[LenBits + CharBits * k + j + 1]
        /\ (pc = "extract_done" /\ message_length = 0) => Len(bits) = LenBits

C9_Witness ==
    /\ pc = "extract_done"
    /\ message_length = 1
    /\ Len(bits) = 40
    /\ Capacity > 40
    /\ relevant_bits = bits

\* The last call extracted from the saved image after its channel at scan
\* position 5 was flipped, and an extraction of the intact image came before.
ExtractedFlippedOutput ==
    /\ pc = "extract_done" /\ path = "output"
    /\ flipped /\ pixels = output
    /\ clean_bits # <<>>

\* C10 - scan-order sensitivity: flipping the lowest bit of the channel at scan
\* position 5 of an image carrying a message changes bit 5 of the sequence
\* extraction accumulates and no other bit of it (compared at every position
\* both extractions reached, which include the first 32).
C10_ScanOrderSensitivity ==
    ExtractedFlippedOutput =>
        /\ Len(bits) >= LenBits
        /\ Len(clean_bits) >= LenBits
        /\ \A k \in 0 .. Len(bits) - 1 :
              k < Len(clean_bits) => (bits[k + 1] # clean_bits[k + 1] <=> k = 5)

C10_Witness ==
    /\ ExtractedFlippedOutput
    /\ message = <<65>>
    /\ Len(clean_bits) = 40
    /\ bits[6] # clean_bits[6]

====
